---- MODULE Spec2Model ----
(***************************************************************************)
(* Model of server.js: the handler getWeatherByCity of the route           *)
(* GET /api/weather/:city.  A request runs in two pieces separated by the   *)
(* single await: the synchronous prefix that substitutes the glyph and      *)
(* issues the upstream call, and the continuation that runs to completion   *)
(* once the upstream promise has settled.                                   *)
(***************************************************************************)
EXTENDS Integers, Sequences, FiniteSets, TLC

(* ----------------------------- bounds ---------------------------------- *)
MaxReqs == 2
MaxCityLen == 2
MaxElems == 2
MaxSlots == 2

Reqs == 1..MaxReqs

(* --------------------------- JS values --------------------------------- *)
\* The JavaScript value undefined, where an object was expected.
Undefined == [undefined |-> TRUE]

\* A city name is a sequence of glyphs.
\* U+53F0, the variant glyph, and U+81FA, the form the upstream API requires.
Tai == "U+53F0"
TaiTrad == "U+81FA"
Bei == "U+5317"
Glyphs == {Tai, TaiTrad, Bei}

RecognizedNames == {"Wx", "PoP", "MinT", "MaxT", "CI", "WS"}
ElementNames == RecognizedNames \cup {"UVI"}

\* Messages of the TypeErrors the try block can throw, one per failing lookup.
ErrReadLocation == "Cannot read properties of undefined (reading 'location')"
ErrReadIndex0 == "Cannot read properties of undefined (reading '0')"
ErrReadTime == "Cannot read properties of undefined (reading 'time')"
ErrReadParameter == "Cannot read properties of undefined (reading 'parameter')"
ErrReadParameterName == "Cannot read properties of undefined (reading 'parameterName')"
TypeErrorMessages ==
  {ErrReadLocation, ErrReadIndex0, ErrReadTime, ErrReadParameter, ErrReadParameterName}

TypeError(m) == [message |-> m, response |-> Undefined]

(* ------------------------- upstream payloads --------------------------- *)
\* The i-th time slot of an element; withParameter = FALSE leaves `parameter` out.
TimeSlot(i, withParameter) ==
  [startTime |-> "T" \o ToString(i),
   endTime   |-> "T" \o ToString(i + 1),
   parameter |-> IF withParameter THEN [parameterName |-> ToString(10 + i)]
                 ELSE Undefined]

\* Time sequences of length len: complete, or with the last slot lacking `parameter`.
TimeSeq(len, complete) ==
  [i \in 1..len |-> TimeSlot(i, complete \/ i < len)]

Elements ==
  {[elementName |-> n, time |-> TimeSeq(len, c)] :
     n \in ElementNames, len \in 0..MaxSlots, c \in BOOLEAN}

WeatherElementSeqs == UNION {[1..n -> Elements] : n \in 0..MaxElems}

Location(w) == [locationName |-> "Taipei City", weatherElement |-> w]

Records(hasLocation, location) ==
  [hasLocation |-> hasLocation, location |-> location,
   datasetDescription |-> "36-hour forecast"]

DataNoRecords == [records |-> Undefined]
DataNoLocation == [records |-> Records(FALSE, <<>>)]
DataEmptyLocation == [records |-> Records(TRUE, <<>>)]
DataLocated(w) == [records |-> Records(TRUE, <<Location(w)>>)]

\* Every payload within the bounds.
AllData ==
  {DataNoRecords, DataNoLocation, DataEmptyLocation}
    \cup {DataLocated(w) : w \in WeatherElementSeqs}

\* A few payloads, one per path of the handler.
SomeData ==
  {DataNoRecords, DataNoLocation, DataEmptyLocation,
   DataLocated(<<>>),
   DataLocated(<<[elementName |-> "Wx", time |-> TimeSeq(1, TRUE)],
                 [elementName |-> "PoP", time |-> TimeSeq(1, TRUE)]>>),
   DataLocated(<<[elementName |-> "MinT", time |-> TimeSeq(1, TRUE)],
                 [elementName |-> "UVI", time |-> TimeSeq(0, TRUE)]>>)}

\* Rejections of axios.get: transport errors carry no response, HTTP errors do.
TransportErrors ==
  {[message |-> m, response |-> Undefined] :
     m \in {"connect ECONNREFUSED", "getaddrinfo ENOTFOUND"}}
UpstreamStatuses == {401, 404, 500}
UpstreamBodies == {[message |-> "Unauthorized"], [message |-> "Resource not found."]}
HttpErrors ==
  {[message |-> "Request failed with status code " \o ToString(s),
    response |-> [status |-> s, data |-> b]] :
     s \in UpstreamStatuses, b \in UpstreamBodies}
AllErrors == TransportErrors \cup HttpErrors

Cities == UNION {[1..n -> Glyphs] : n \in 1..MaxCityLen}
SomeCities == {<<Tai, Bei>>, <<Bei>>}

(* ------------------------------ state ---------------------------------- *)
VARIABLES
  pc,         \* pc[r]: "idle", "awaiting", "settled" or "done"
  params,     \* params[r]: req.params.city
  city,       \* city[r]: the handler's local `city`
  calls,      \* calls[r]: locationName of each axios.get the request issued
  outcome,    \* outcome[r]: how the awaited promise settled
  responses,  \* responses[r]: the responses sent through res
  log         \* log[r]: what the request wrote with console.error

vars == <<pc, params, city, calls, outcome, responses, log>>

Init ==
  /\ pc = [r \in Reqs |-> "idle"]
  /\ params = [r \in Reqs |-> <<>>]
  /\ city = [r \in Reqs |-> <<>>]
  /\ calls = [r \in Reqs |-> <<>>]
  /\ outcome = [r \in Reqs |-> [kind |-> "pending"]]
  /\ responses = [r \in Reqs |-> <<>>]
  /\ log = [r \in Reqs |-> <<>>]

(* ------------------- lines 22-27: glyph substitution -------------------- *)
\* city.replace without the g flag: only the first occurrence is replaced.
RECURSIVE ReplaceFirst(_)
ReplaceFirst(s) ==
  IF s = <<>> THEN <<>>
  ELSE IF Head(s) = Tai THEN <<TaiTrad>> \o Tail(s)
       ELSE <<Head(s)>> \o ReplaceFirst(Tail(s))

\* Line 26, city.replace(/U+53F0/g, U+81FA): every occurrence is replaced.
RECURSIVE ReplaceAll(_)
ReplaceAll(s) ==
  IF s = <<>> THEN <<>>
  ELSE <<IF Head(s) = Tai THEN TaiTrad ELSE Head(s)>> \o ReplaceAll(Tail(s))

\* if (city) { city = city.replace(...) }: the empty string is falsy.
Substituted(c) == IF Len(c) > 0 THEN ReplaceAll(c) ELSE c

(* --------------------- lines 56-84: normalization ----------------------- *)
\* Lines 60-69: the record seeded from the first element's i-th time slot.
\* A missing slot cannot occur here: i <= weatherElements[0].time.length.
Seed(weatherElements, i) ==
  [startTime |-> weatherElements[1].time[i].startTime,
   endTime   |-> weatherElements[1].time[i].endTime,
   weather   |-> "",
   rain      |-> "",
   minTemp   |-> "",
   maxTemp   |-> "",
   comfort   |-> "",
   windSpeed |-> ""]

\* The switch with the MaxT case writing the MinT field.
AssignSwapped(forecast, elementName, parameterName) ==
  CASE elementName = "Wx"   -> [forecast EXCEPT !.weather = parameterName]
    [] elementName = "PoP"  -> [forecast EXCEPT !.rain = parameterName \o "%"]
    [] elementName = "MinT" -> [forecast EXCEPT !.minTemp = parameterName \o "degC"]
    [] elementName = "MaxT" -> [forecast EXCEPT !.minTemp = parameterName \o "degC"]
    [] elementName = "CI"   -> [forecast EXCEPT !.comfort = parameterName]
    [] elementName = "WS"   -> [forecast EXCEPT !.windSpeed = parameterName]
    [] OTHER                -> forecast

\* The switch with a default case that stores the value as the weather text.
AssignDefault(forecast, elementName, parameterName) ==
  CASE elementName = "Wx"   -> [forecast EXCEPT !.weather = parameterName]
    [] elementName = "PoP"  -> [forecast EXCEPT !.rain = parameterName \o "%"]
    [] elementName = "MinT" -> [forecast EXCEPT !.minTemp = parameterName \o "degC"]
    [] elementName = "MaxT" -> [forecast EXCEPT !.maxTemp = parameterName \o "degC"]
    [] elementName = "CI"   -> [forecast EXCEPT !.comfort = parameterName]
    [] elementName = "WS"   -> [forecast EXCEPT !.windSpeed = parameterName]
    [] OTHER                -> [forecast EXCEPT !.weather = parameterName]

\* Lines 73-80: the switch, for a value that is an object; "degC" stands for
\* the degree sign followed by C.
Assign(forecast, elementName, parameterName) ==
  CASE elementName = "Wx"   -> [forecast EXCEPT !.weather = parameterName]
    [] elementName = "PoP"  -> [forecast EXCEPT !.rain = parameterName \o "%"]
    [] elementName = "MinT" -> [forecast EXCEPT !.minTemp = parameterName \o "degC"]
    [] elementName = "MaxT" -> [forecast EXCEPT !.maxTemp = parameterName \o "degC"]
    [] elementName = "CI"   -> [forecast EXCEPT !.comfort = parameterName]
    [] elementName = "WS"   -> [forecast EXCEPT !.windSpeed = parameterName]
    [] OTHER                -> forecast

\* Line 72, when it does not throw: element.time[i].parameter.
ValueOf(element, i) ==
  IF i > Len(element.time) THEN Undefined ELSE element.time[i].parameter

\* Line 72 written element.time[i]?.parameter: a missing slot no longer throws.
ElementThrowsOptional(element, i) ==
  IF element.elementName \in RecognizedNames /\ ValueOf(element, i) = Undefined
  THEN ErrReadParameterName
  ELSE ""

\* Lines 72-80 for one element: "" or the message of the TypeError it throws.
\* element.time[i] is undefined past the end of element.time, and reading
\* .parameter of it throws; value.parameterName is read only inside a case.
ElementThrows(element, i) ==
  IF i > Len(element.time) THEN ErrReadParameter
  ELSE IF element.elementName \in RecognizedNames /\ ValueOf(element, i) = Undefined
       THEN ErrReadParameterName
       ELSE ""

\* Lines 71-81: weatherElements.forEach from the k-th element on.
RECURSIVE ForEachElement(_, _, _, _)
ForEachElement(forecast, weatherElements, i, k) ==
  IF k > Len(weatherElements) THEN [error |-> "", forecast |-> forecast]
  ELSE LET element == weatherElements[k]
           thrown == ElementThrows(element, i)
           value == ValueOf(element, i)
       IN IF thrown # "" THEN [error |-> thrown, forecast |-> forecast]
          ELSE IF value = Undefined
               THEN ForEachElement(forecast, weatherElements, i, k + 1)
               ELSE ForEachElement(
                      Assign(forecast, element.elementName, value.parameterName),
                      weatherElements, i, k + 1)

\* Lines 59-84: the loop over the time indexes from i on.
RECURSIVE ForecastLoop(_, _, _, _)
ForecastLoop(weatherElements, timeCount, i, forecasts) ==
  IF i > timeCount THEN [error |-> "", forecasts |-> forecasts]
  ELSE LET r == ForEachElement(Seed(weatherElements, i), weatherElements, i, 1)
       IN IF r.error # "" THEN [error |-> r.error, forecasts |-> forecasts]
          ELSE ForecastLoop(weatherElements, timeCount, i + 1,
                            Append(forecasts, r.forecast))

\* Lines 56-84 with an empty sequence defaulting to no forecasts.
NormalizeDefaulting(locationData) ==
  LET weatherElements == locationData.weatherElement
  IN IF Len(weatherElements) = 0 THEN [error |-> "", forecasts |-> <<>>]
     ELSE ForecastLoop(weatherElements, Len(weatherElements[1].time), 1, <<>>)

\* Lines 56-84: weatherElements[0] is undefined for an empty sequence.
Normalize(locationData) ==
  LET weatherElements == locationData.weatherElement
  IN IF Len(weatherElements) = 0 THEN [error |-> ErrReadTime, forecasts |-> <<>>]
     ELSE ForecastLoop(weatherElements, Len(weatherElements[1].time), 1, <<>>)

(* ------------------ lines 40-100: after the await ----------------------- *)
\* Line 45 with the message built from the substituted name.
NotFoundMessageSubstituted(name) ==
  <<"No data for '">> \o Substituted(name) \o <<"', check the city name.">>

\* Line 45: the message names req.params.city, the name as requested.
NotFoundMessage(name) == <<"No data for '">> \o name \o <<"', check the city name.">>

\* Lines 40-89 with the return of line 43 dropped: after the 404 is sent,
\* line 51 reads locationName of undefined and throws.
TryBlockNoReturn(paramsCity, data) ==
  IF data.records = Undefined
  THEN [thrown |-> TypeError(ErrReadLocation), sent |-> <<>>]
  ELSE IF ~data.records.hasLocation
  THEN [thrown |-> TypeError(ErrReadIndex0), sent |-> <<>>]
  ELSE IF Len(data.records.location) = 0
  THEN [thrown |-> TypeError("Cannot read properties of undefined (reading 'locationName')"),
        sent |-> <<[status |-> 404,
                    body |-> [success |-> FALSE,
                              message |-> NotFoundMessage(paramsCity)]]>>]
  ELSE LET locationData == data.records.location[1]
           n == Normalize(locationData)
       IN IF n.error # ""
          THEN [thrown |-> TypeError(n.error), sent |-> <<>>]
          ELSE [thrown |-> Undefined,
                sent |-> <<[status |-> 200,
                            body |-> [success |-> TRUE,
                                      data |-> [city |-> locationData.locationName,
                                                updateTime |-> data.records.datasetDescription,
                                                forecasts |-> n.forecasts]]]>>]

\* Lines 40-89 for a resolved call: what the try block sends, or what it throws.
TryBlock(paramsCity, data) ==
  IF data.records = Undefined
  THEN [thrown |-> TypeError(ErrReadLocation), sent |-> <<>>]
  ELSE IF ~data.records.hasLocation
  THEN [thrown |-> TypeError(ErrReadIndex0), sent |-> <<>>]
  ELSE LET locationData == IF Len(data.records.location) = 0 THEN Undefined
                           ELSE data.records.location[1]
       IN IF locationData = Undefined
          THEN [thrown |-> Undefined,
                sent |-> <<[status |-> 404,
                            body |-> [success |-> FALSE,
                                      message |-> NotFoundMessage(paramsCity)]]>>]
          ELSE LET n == Normalize(locationData)
               IN IF n.error # ""
                  THEN [thrown |-> TypeError(n.error), sent |-> <<>>]
                  ELSE [thrown |-> Undefined,
                        sent |-> <<[status |-> 200,
                                    body |-> [success |-> TRUE,
                                              data |-> [city |-> locationData.locationName,
                                                        updateTime |-> data.records.datasetDescription,
                                                        forecasts |-> n.forecasts]]]>>]

\* The error that reaches the catch clause, or Undefined.
Caught(paramsCity, o) ==
  IF o.kind = "rejected" THEN o.error ELSE TryBlock(paramsCity, o.data).thrown

\* Lines 95-99 with the upstream status replaced by 500.
CatchBlockStatus500(error) ==
  IF error.response # Undefined
  THEN <<[status |-> 500, body |-> [error |-> error.response.data]]>>
  ELSE <<[status |-> 500, body |-> [error |-> error.message]]>>

\* Lines 95-99: what the catch clause sends.
CatchBlock(error) ==
  IF error.response # Undefined
  THEN <<[status |-> error.response.status, body |-> [error |-> error.response.data]]>>
  ELSE <<[status |-> 500, body |-> [error |-> error.message]]>>

\* Everything the continuation sends through res, in order.
Sent(paramsCity, o) ==
  LET tried == IF o.kind = "rejected" THEN <<>> ELSE TryBlock(paramsCity, o.data).sent
      error == Caught(paramsCity, o)
  IN IF error = Undefined THEN tried ELSE tried \o CatchBlock(error)

(* ----------------------------- actions ---------------------------------- *)
\* The request kept in one module-level variable: every continuation reads
\* the params of the first request.
ReqParamsCityShared(r) == params[1]

\* Line 45: req.params.city, as the continuation of request r reads it.
ReqParamsCity(r) == params[r]

\* Lines 22-38: the handler starts with a city name of C, substitutes the
\* glyph and issues the call.
Request(r, C) ==
  /\ pc[r] = "idle"
  /\ \E c \in C :
       /\ params' = [params EXCEPT ![r] = c]
       /\ city' = [city EXCEPT ![r] = Substituted(c)]
       /\ calls' = [calls EXCEPT ![r] = Append(@, Substituted(c))]
  /\ pc' = [pc EXCEPT ![r] = "awaiting"]
  /\ UNCHANGED <<outcome, responses, log>>

\* The promise of axios.get resolves with response.data drawn from D.
UpstreamResolve(r, D) ==
  /\ pc[r] = "awaiting"
  /\ \E d \in D : outcome' = [outcome EXCEPT ![r] = [kind |-> "resolved", data |-> d]]
  /\ pc' = [pc EXCEPT ![r] = "settled"]
  /\ UNCHANGED <<params, city, calls, responses, log>>

\* The promise of axios.get rejects with an error drawn from E.
UpstreamReject(r, E) ==
  /\ pc[r] = "awaiting"
  /\ \E e \in E : outcome' = [outcome EXCEPT ![r] = [kind |-> "rejected", error |-> e]]
  /\ pc' = [pc EXCEPT ![r] = "settled"]
  /\ UNCHANGED <<params, city, calls, responses, log>>

\* The continuation with one retry: a rejected call is issued again.
ResumeRetry(r) ==
  /\ pc[r] = "settled"
  /\ IF outcome[r].kind = "rejected" /\ Len(calls[r]) < 2
     THEN /\ calls' = [calls EXCEPT ![r] = Append(@, city[r])]
          /\ pc' = [pc EXCEPT ![r] = "awaiting"]
          /\ UNCHANGED <<params, city, outcome, responses, log>>
     ELSE /\ LET error == Caught(ReqParamsCity(r), outcome[r])
             IN /\ responses' = [responses EXCEPT ![r] =
                                   @ \o Sent(ReqParamsCity(r), outcome[r])]
                /\ log' = [log EXCEPT ![r] =
                             IF error = Undefined THEN @
                             ELSE Append(@, [city |-> city[r], message |-> error.message])]
          /\ pc' = [pc EXCEPT ![r] = "done"]
          /\ UNCHANGED <<params, city, calls, outcome>>

\* Lines 40-100: the continuation runs to completion.
Resume(r) ==
  /\ pc[r] = "settled"
  /\ LET error == Caught(ReqParamsCity(r), outcome[r])
     IN /\ responses' = [responses EXCEPT ![r] = @ \o Sent(ReqParamsCity(r), outcome[r])]
        /\ log' = [log EXCEPT ![r] =
                     IF error = Undefined THEN @
                     ELSE Append(@, [city |-> city[r], message |-> error.message])]
  /\ pc' = [pc EXCEPT ![r] = "done"]
  /\ UNCHANGED <<params, city, calls, outcome>>

(* -------------------------- specifications ------------------------------ *)
\* One request, every city name, a few upstream results.
Next ==
  \/ Request(1, Cities)
  \/ UpstreamResolve(1, SomeData)
  \/ UpstreamReject(1, AllErrors)
  \/ Resume(1)

Spec == Init /\ [][Next]_vars

\* One request, every upstream payload within the bounds.
NextNorm ==
  \/ Request(1, SomeCities)
  \/ UpstreamResolve(1, AllData)
  \/ UpstreamReject(1, AllErrors)
  \/ Resume(1)

SpecNorm == Init /\ [][NextNorm]_vars

\* Several requests in flight, settling and resuming in any order.
NextConc ==
  \E r \in Reqs :
    \/ Request(r, SomeCities)
    \/ UpstreamResolve(r, SomeData)
    \/ UpstreamReject(r, AllErrors)
    \/ Resume(r)

SpecConc == Init /\ [][NextConc]_vars

(* ----------------------------- vocabulary -------------------------------- *)
Done(r) == pc[r] = "done"
Resolved(r) == outcome[r].kind = "resolved"

\* The call resolved with a records.location list.
HasLocationList(r) ==
  /\ Resolved(r)
  /\ outcome[r].data.records # Undefined
  /\ outcome[r].data.records.hasLocation

EmptyLocation(r) == HasLocationList(r) /\ Len(outcome[r].data.records.location) = 0
Located(r) == HasLocationList(r) /\ Len(outcome[r].data.records.location) > 0

\* The weatherElement sequence of the located record.
ElementsOf(r) == outcome[r].data.records.location[1].weatherElement

\* The call rejected with an error that carries a response / carries none.
HttpRejected(r) == outcome[r].kind = "rejected" /\ outcome[r].error.response # Undefined
TransportRejected(r) == outcome[r].kind = "rejected" /\ outcome[r].error.response = Undefined

Answered(r) == Len(responses[r]) = 1
Status(r) == responses[r][1].status
Body(r) == responses[r][1].body
Success(r) == Answered(r) /\ Status(r) = 200 /\ Body(r).success = TRUE
Forecasts(r) == Body(r).data.forecasts

\* The mapping table of the specification: element name -> field and suffix.
FieldOf(n) ==
  CASE n = "Wx" -> "weather" [] n = "PoP" -> "rain" [] n = "MinT" -> "minTemp"
    [] n = "MaxT" -> "maxTemp" [] n = "CI" -> "comfort" [] n = "WS" -> "windSpeed"
SuffixOf(n) ==
  CASE n = "PoP" -> "%" [] n \in {"MinT", "MaxT"} -> "degC" [] OTHER -> ""

\* Every slot the loop reads of a recognized element carries a parameter.
ParametersPresent(w, N) ==
  \A k \in 1..Len(w) : \A i \in 1..Len(w[k].time) :
    (i <= N /\ w[k].elementName \in RecognizedNames) => w[k].time[i].parameter # Undefined

\* A valid payload: a first element, equal lengths, every slot with a parameter.
Valid(w) ==
  /\ Len(w) > 0
  /\ \A k \in 1..Len(w) : Len(w[k].time) = Len(w[1].time)
  /\ \A k \in 1..Len(w) : \A i \in 1..Len(w[k].time) : w[k].time[i].parameter # Undefined

\* Record i pairs, for every recognized name, the i-th value of an element of
\* that name with the name's field, and leaves the other fields empty.
PairedByIndex(f, w, i) ==
  \A n \in RecognizedNames :
    LET present == {k \in 1..Len(w) : w[k].elementName = n}
    IN IF present = {} THEN f[FieldOf(n)] = ""
       ELSE /\ f[FieldOf(n)] # ""
            /\ \E k \in present :
                 f[FieldOf(n)] = w[k].time[i].parameter.parameterName \o SuffixOf(n)

\* s occurs in m as a contiguous run.
Contains(m, s) ==
  \E j \in 0..(Len(m) - Len(s)) : SubSeq(m, j + 1, j + Len(s)) = s

(* ------------------------------- claims --------------------------------- *)
\* C1: for a valid payload with N time slots, the handler returns exactly N
\* records; in each the fields of the element names present hold the i-th
\* value with its suffix, and the fields of the absent names are "".
C1_NormalizedShape ==
  \A r \in Reqs :
    (Done(r) /\ Located(r) /\ Valid(ElementsOf(r))) =>
      /\ Success(r)
      /\ Len(Forecasts(r)) = Len(ElementsOf(r)[1].time)
      /\ \A i \in 1..Len(Forecasts(r)) :
           PairedByIndex(Forecasts(r)[i], ElementsOf(r), i)

C1_Witness ==
  \E r \in Reqs :
    /\ Done(r) /\ Located(r) /\ Valid(ElementsOf(r))
    /\ Len(ElementsOf(r)) = 2
    /\ ElementsOf(r)[1].elementName = "PoP"
    /\ ElementsOf(r)[2].elementName = "MaxT"
    /\ Len(ElementsOf(r)[1].time) = 2
    /\ Success(r)
    /\ Forecasts(r)[2].rain = "12%"
    /\ Forecasts(r)[2].maxTemp = "12degC"
    /\ Forecasts(r)[2].minTemp = ""

\* C2: an empty records.location list is answered with 404 and success:false,
\* the message contains the city name as requested, and nothing else is sent
\* or logged.
C2_NotFound ==
  \A r \in Reqs :
    (Done(r) /\ EmptyLocation(r)) =>
      /\ Answered(r)
      /\ Status(r) = 404
      /\ Body(r).success = FALSE
      /\ Contains(Body(r).message, params[r])
      /\ log[r] = <<>>

C2_Witness ==
  \E r \in Reqs :
    /\ Done(r) /\ EmptyLocation(r)
    /\ \E i \in 1..Len(params[r]) : params[r][i] = Tai
    /\ city[r] # params[r]
    /\ Answered(r) /\ Status(r) = 404

\* C3 as stated: an upstream HTTP error is answered with the upstream status
\* and with the upstream body, verbatim, as the response body.
C3_VerbatimBody ==
  \A r \in Reqs :
    (Done(r) /\ HttpRejected(r)) =>
      /\ Answered(r)
      /\ Status(r) = outcome[r].error.response.status
      /\ Body(r) = outcome[r].error.response.data

\* C3 amended: an upstream HTTP error is answered with the upstream status
\* and with the body {error: <upstream body>}.
C3_WrappedBody ==
  \A r \in Reqs :
    (Done(r) /\ HttpRejected(r)) =>
      /\ Answered(r)
      /\ Status(r) = outcome[r].error.response.status
      /\ Body(r) = [error |-> outcome[r].error.response.data]

C3_Witness ==
  \E r \in Reqs :
    /\ Done(r) /\ HttpRejected(r)
    /\ outcome[r].error.response.status = 401
    /\ Answered(r) /\ Status(r) = 401

\* C4: a failure that is neither an empty location list nor an upstream HTTP
\* error is answered with 500 and {error: <the failure's message>}: a
\* transport error, missing records, missing location, and in particular an
\* empty weatherElement sequence, which never yields a success response.
C4_Generic500 ==
  \A r \in Reqs :
    Done(r) =>
      /\ TransportRejected(r) =>
           /\ Answered(r) /\ Status(r) = 500
           /\ Body(r) = [error |-> outcome[r].error.message]
      /\ (Resolved(r) /\ outcome[r].data.records = Undefined) =>
           /\ Answered(r) /\ Status(r) = 500
           /\ Body(r) = [error |-> ErrReadLocation]
      /\ (Resolved(r) /\ outcome[r].data.records # Undefined
            /\ ~outcome[r].data.records.hasLocation) =>
           /\ Answered(r) /\ Status(r) = 500
           /\ Body(r) = [error |-> ErrReadIndex0]
      /\ (Located(r) /\ Len(ElementsOf(r)) = 0) =>
           /\ Answered(r) /\ Status(r) = 500
           /\ Body(r) = [error |-> ErrReadTime]
      /\ (~EmptyLocation(r) /\ ~HttpRejected(r) /\ ~Success(r)) =>
           /\ Answered(r) /\ Status(r) = 500
           /\ DOMAIN Body(r) = {"error"}
           /\ Body(r).error \in TypeErrorMessages
                                  \cup {e.message : e \in TransportErrors}
           /\ Len(log[r]) = 1 /\ log[r][1].message = Body(r).error

C4_Witness ==
  \E r \in Reqs :
    /\ Done(r) /\ Located(r) /\ Len(ElementsOf(r)) = 0
    /\ Answered(r) /\ Status(r) = 500

\* C5: the locationName of the upstream call is the requested name with
\* every U+53F0 replaced by U+81FA; it contains no U+53F0, and a name
\* without U+53F0 is sent unchanged.
C5_Substitution ==
  \A r \in Reqs :
    pc[r] # "idle" =>
      /\ Len(calls[r]) = 1
      /\ Len(calls[r][1]) = Len(params[r])
      /\ \A i \in 1..Len(params[r]) :
           /\ calls[r][1][i] # Tai
           /\ calls[r][1][i] = IF params[r][i] = Tai THEN TaiTrad ELSE params[r][i]
      /\ (\A i \in 1..Len(params[r]) : params[r][i] # Tai) => calls[r][1] = params[r]

C5_Witness ==
  \E r \in Reqs :
    /\ pc[r] = "awaiting"
    /\ params[r] = <<Tai, Tai>>
    /\ calls[r] = << <<TaiTrad, TaiTrad>> >>

\* C6: no retries.  A request never holds more than one upstream call; the
\* step a request takes after its call rejected sends one error response,
\* issues no call and ends the request; a finished request does nothing more.
C6_NoRetry ==
  [][\A r \in Reqs :
       /\ Len(calls'[r]) <= 1
       /\ (pc[r] = "settled" /\ outcome[r].kind = "rejected" /\ pc'[r] # pc[r]) =>
            /\ pc'[r] = "done"
            /\ calls'[r] = calls[r]
            /\ Len(responses'[r]) = Len(responses[r]) + 1
            /\ responses'[r][Len(responses'[r])].status # 200
            /\ DOMAIN responses'[r][Len(responses'[r])].body = {"error"}
       /\ pc[r] = "done" =>
            /\ pc'[r] = "done"
            /\ calls'[r] = calls[r]
            /\ responses'[r] = responses[r]]_vars

C6_Witness ==
  \E r \in Reqs :
    /\ Done(r) /\ outcome[r].kind = "rejected"
    /\ Len(calls[r]) = 1
    /\ Answered(r) /\ DOMAIN Body(r) = {"error"}

\* C7: with several requests in flight, settling in any order, every request
\* is answered with what its own requested name and its own upstream result
\* give, and an unfinished request has been sent nothing.
C7_Isolation ==
  \A r \in Reqs :
    /\ Done(r) => responses[r] = Sent(params[r], outcome[r])
    /\ ~Done(r) => responses[r] = <<>>
    /\ pc[r] # "idle" => calls[r] = <<Substituted(params[r])>>

C7_Witness ==
  \E r, q \in Reqs :
    /\ r # q
    /\ Done(r) /\ Done(q)
    /\ params[r] # params[q]
    /\ EmptyLocation(r) /\ Located(q)
    /\ Status(r) = 404 /\ Status(q) = 200

WithoutElement(r, k) ==
  [kind |-> "resolved",
   data |-> DataLocated(SubSeq(ElementsOf(r), 1, k - 1)
                          \o SubSeq(ElementsOf(r), k + 1, Len(ElementsOf(r))))]

SentWithout(r, k) == Sent(params[r], WithoutElement(r, k))

SucceedsWithout(r, k) ==
  /\ Len(SentWithout(r, k)) = 1
  /\ SentWithout(r, k)[1].status = 200

\* C9 as stated: an element with an unrecognized name is ignored whatever it
\* holds: a request that succeeds without it gets the same response with it.
C9_IgnoredForAnyContent ==
  \A r \in Reqs :
    (Done(r) /\ Located(r)) =>
      \A k \in 1..Len(ElementsOf(r)) :
        (ElementsOf(r)[k].elementName \notin RecognizedNames /\ SucceedsWithout(r, k))
          => responses[r] = SentWithout(r, k)

\* C9 amended: an element with an unrecognized name that is not the first
\* element and has a time slot at every index below the first element's
\* length is ignored: a request that succeeds without it gets the same
\* response with it.
C9_IgnoredWhenLongEnough ==
  \A r \in Reqs :
    (Done(r) /\ Located(r)) =>
      \A k \in 2..Len(ElementsOf(r)) :
        (/\ ElementsOf(r)[k].elementName \notin RecognizedNames
         /\ Len(ElementsOf(r)[k].time) >= Len(ElementsOf(r)[1].time)
         /\ SucceedsWithout(r, k))
          => responses[r] = SentWithout(r, k)

C9_Witness ==
  \E r \in Reqs :
    /\ Done(r) /\ Located(r)
    /\ Len(ElementsOf(r)) = 2
    /\ ElementsOf(r)[1].elementName = "Wx"
    /\ Len(ElementsOf(r)[1].time) = 2
    /\ ElementsOf(r)[2].elementName = "UVI"
    /\ Len(ElementsOf(r)[2].time) = 2
    /\ ElementsOf(r)[2].time[1].parameter # Undefined
    /\ Success(r)
    /\ Forecasts(r)[1].weather = "11"

\* The four ways a request is answered.
SuccessPath(r) == Status(r) = 200 /\ DOMAIN Body(r) = {"success", "data"} /\ Body(r).success
NotFoundPath(r) ==
  /\ Status(r) = 404 /\ DOMAIN Body(r) = {"success", "message"} /\ ~Body(r).success
PassThroughPath(r) ==
  /\ HttpRejected(r) /\ DOMAIN Body(r) = {"error"}
  /\ Status(r) = outcome[r].error.response.status
GenericPath(r) == ~HttpRejected(r) /\ Status(r) = 500 /\ DOMAIN Body(r) = {"error"}

\* C10: a request whose continuation ran has been sent exactly one response,
\* along exactly one of the four paths; before that it has been sent none;
\* and a success response is sent only for a resolved call with a non-empty
\* location list.
C10_ExactlyOnce ==
  \A r \in Reqs :
    /\ Len(responses[r]) <= 1
    /\ Done(r) <=> Answered(r)
    /\ Done(r) =>
         /\ Cardinality({p \in {"success", "notFound", "passThrough", "generic"} :
              \/ p = "success" /\ SuccessPath(r)
              \/ p = "notFound" /\ NotFoundPath(r)
              \/ p = "passThrough" /\ PassThroughPath(r)
              \/ p = "generic" /\ GenericPath(r)}) = 1
         /\ SuccessPath(r) => Located(r)
         /\ NotFoundPath(r) => EmptyLocation(r)

C10_Witness ==
  \E r, q \in Reqs :
    /\ r # q
    /\ Done(r) /\ Done(q)
    /\ SuccessPath(r) /\ Located(r)
    /\ PassThroughPath(q)

====
